---- MODULE Spec2Model ----
(***************************************************************************)
(* Model of src/utils.py: converse() (request construction, one remote     *)
(* call, response-text extraction) and calculate_monthly_cost().           *)
(*                                                                         *)
(* Python values are represented as follows.                               *)
(*   - an optional value: None is <<>>, a supplied value v is <<v>>;       *)
(*   - a str that the code inspects character by character (model_id) is   *)
(*     a sequence of one-character strings; other strs are TLA+ strings;   *)
(*   - a dict is a function from its keys (strings) to its values, so      *)
(*     "k in d" is k \in DOMAIN d;                                         *)
(*   - a list is a sequence; Python index i is TLA+ index i + 1;           *)
(*   - a number produced by true division is an exact rational <<n, d>>    *)
(*     in lowest terms with d > 0;                                         *)
(*   - temperature is carried in tenths (7 stands for 0.7), prices in      *)
(*     thousandths (3 stands for 0.003).                                   *)
(***************************************************************************)
EXTENDS Integers, Sequences, FiniteSets, TLC

VARIABLES
    pc,                \* position inside converse()
    model_id, prompt, system_prompt, temperature, max_tokens,
    reasoning_effort, thinking_budget,      \* arguments of converse()
    inference_config,  \* the dict object bound to inference_config
    converse_params,   \* the dict object bound to converse_params
    calls,             \* number of client.converse calls made so far
    sent,              \* keyword arguments received by client.converse
    response,          \* value returned by client.converse
    content,           \* local variable content
    outcome,           \* how converse() ended: "none", "return", "raise"
    result,            \* value returned by converse()
    error,             \* exception that left converse()
    raised,            \* exception client.converse raised, if it raised
    cpc,               \* position inside calculate_monthly_cost()
    requests_per_day, avg_input_tokens, avg_output_tokens,
    input_price_per_1k, output_price_per_1k,
    monthly_requests, monthly_input_tokens, monthly_output_tokens,
    cost               \* value returned by calculate_monthly_cost()

vars == <<pc, model_id, prompt, system_prompt, temperature, max_tokens,
          reasoning_effort, thinking_budget, inference_config,
          converse_params, calls, sent, response, content, outcome, result,
          error, raised, cpc, requests_per_day, avg_input_tokens, avg_output_tokens,
          input_price_per_1k, output_price_per_1k, monthly_requests,
          monthly_input_tokens, monthly_output_tokens, cost>>

converseVars == <<pc, model_id, prompt, system_prompt, temperature,
                  max_tokens, reasoning_effort, thinking_budget,
                  inference_config, converse_params, calls, sent, response,
                  content, outcome, result, error, raised>>

costVars == <<cpc, requests_per_day, avg_input_tokens, avg_output_tokens,
              input_price_per_1k, output_price_per_1k, monthly_requests,
              monthly_input_tokens, monthly_output_tokens, cost>>

(***************************************************************************)
(* Bounds of the model.                                                    *)
(***************************************************************************)
MaxContent == 3
MaxBudget == 1
MaxRequests == 2
MaxTokens == 2
MaxPrice == 2

(***************************************************************************)
(* Python values.                                                          *)
(***************************************************************************)
None == <<>>
Some(v) == <<v>>

\* bool(x) for an optional str: None and the empty string are falsy.
Truthy(x) == x # None /\ x[1] # ""

UpperToLower ==
    [A |-> "a", B |-> "b", C |-> "c", D |-> "d", E |-> "e", F |-> "f",
     G |-> "g", H |-> "h", I |-> "i", J |-> "j", K |-> "k", L |-> "l",
     M |-> "m", N |-> "n", O |-> "o", P |-> "p", Q |-> "q", R |-> "r",
     S |-> "s", T |-> "t", U |-> "u", V |-> "v", W |-> "w", X |-> "x",
     Y |-> "y", Z |-> "z"]

\* str.lower()
Lower(s) ==
    [k \in 1..Len(s) |->
        IF s[k] \in DOMAIN UpperToLower THEN UpperToLower[s[k]] ELSE s[k]]

\* sub in s, for strs
Contains(sub, s) ==
    \E k \in 0..(Len(s) - Len(sub)) : SubSeq(s, k + 1, k + Len(sub)) = sub

openai == <<"o", "p", "e", "n", "a", "i">>
gpt == <<"g", "p", "t">>
claude == <<"c", "l", "a", "u", "d", "e">>

(***************************************************************************)
(* Inputs.                                                                 *)
(***************************************************************************)
ModelIds ==
    { <<"g", "p", "t">>,
      <<"G", "P", "T", "-", "4">>,
      <<"O", "p", "e", "n", "A", "I", ".", "o", "s", "s">>,
      <<"c", "l", "a", "u", "d", "e", "-", "3">>,
      <<"C", "L", "A", "U", "D", "E">>,
      <<"c", "l", "a", "u", "d", "e", "-", "G", "p", "t">>,
      <<"l", "l", "a", "m", "a">>,
      <<"g", "p", "-", "t", ".", "c", "l", "a", "u", "d">> }

Prompts == {"2+2?", "hi"}
DefaultSystemPrompt == "You are a helpful assistant."
SystemPrompts == {DefaultSystemPrompt, "Be terse."}
DefaultTemperature == 0
Temperatures == {DefaultTemperature, 7}
DefaultMaxTokens == 2000
MaxTokensValues == {DefaultMaxTokens, 256}
ReasoningEfforts == {None, Some(""), Some("low"), Some("high")}
ThinkingBudgets == {None, Some(0)} \cup {Some(1024 * k) : k \in 1..MaxBudget}

\* Content blocks a response may carry.
Blocks ==
    { [text |-> "answer"], [text |-> "trace"], [reasoningText |-> "trace"] }

RECURSIVE SeqsUpTo(_, _)
SeqsUpTo(S, n) ==
    IF n = 0 THEN {<<>>}
    ELSE LET shorter == SeqsUpTo(S, n - 1)
         IN shorter \cup {Append(s, b) : s \in {t \in shorter : Len(t) = n - 1}, b \in S}

Contents == SeqsUpTo(Blocks, MaxContent)

ServiceErrors == {"ThrottlingException", "ValidationException"}

(***************************************************************************)
(* converse()                                                              *)
(***************************************************************************)
Init ==
    /\ pc = "idle"
    /\ model_id = None /\ prompt = None /\ system_prompt = None
    /\ temperature = None /\ max_tokens = None
    /\ reasoning_effort = None /\ thinking_budget = None
    /\ inference_config = None /\ converse_params = None
    /\ calls = 0 /\ sent = None /\ response = None /\ content = None
    /\ outcome = "none" /\ result = None /\ error = None
    /\ raised = None
    /\ cpc = "idle"
    /\ requests_per_day = None /\ avg_input_tokens = None
    /\ avg_output_tokens = None
    /\ input_price_per_1k = None /\ output_price_per_1k = None
    /\ monthly_requests = None /\ monthly_input_tokens = None
    /\ monthly_output_tokens = None /\ cost = None

\* The call converse(client, model_id, prompt, ...): parameters are bound,
\* omitted ones to their defaults.
Invoke ==
    /\ pc = "idle"
    /\ \E m \in ModelIds, p \in Prompts, s \in SystemPrompts,
          t \in Temperatures, mt \in MaxTokensValues,
          re \in ReasoningEfforts, tb \in ThinkingBudgets :
            /\ model_id' = m
            /\ prompt' = p
            /\ system_prompt' = s
            /\ temperature' = t
            /\ max_tokens' = mt
            /\ reasoning_effort' = re
            /\ thinking_budget' = tb
    /\ pc' = "inference_config"
    /\ UNCHANGED <<inference_config, converse_params, calls, sent, response,
                   content, outcome, result, error,
                   raised>>
    /\ UNCHANGED costVars

\* inference_config = {"temperature": ..., "maxTokens": ...}
BuildInferenceConfig ==
    /\ pc = "inference_config"
    /\ inference_config' =
           [temperature |-> temperature, maxTokens |-> max_tokens]
    /\ pc' = "converse_params"
    /\ UNCHANGED <<model_id, prompt, system_prompt, temperature, max_tokens,
                   reasoning_effort, thinking_budget, converse_params, calls,
                   sent, response, content, outcome, result, error,
                   raised>>
    /\ UNCHANGED costVars

\* The value "inferenceConfig" holds in converse_params: a reference to the
\* dict object bound to inference_config, not a copy of it.
InferenceConfigRef == [ref |-> "inference_config"]

\* converse_params = {"modelId": ..., "messages": ..., "system": ...,
\*                    "inferenceConfig": inference_config}
BuildConverseParams ==
    /\ pc = "converse_params"
    /\ converse_params' =
           [modelId |-> model_id,
            messages |-> <<[role |-> "user",
                            content |-> <<[text |-> prompt]>>]>>,
            system |-> <<[text |-> system_prompt]>>,
            inferenceConfig |-> InferenceConfigRef]
    /\ pc' = "reasoning"
    /\ UNCHANGED <<model_id, prompt, system_prompt, temperature, max_tokens,
                   reasoning_effort, thinking_budget, inference_config, calls,
                   sent, response, content, outcome, result, error,
                   raised>>
    /\ UNCHANGED costVars

\* Variant: the substring tests applied to model_id itself.
ReasoningAppliesCaseSensitive(mid, re) ==
    /\ Contains(openai, mid) \/ Contains(gpt, mid)
    /\ Truthy(re)

\* Variant: reasoning_effort tested with "is not None".
ReasoningAppliesNotNone(mid, re) ==
    /\ Contains(openai, Lower(mid)) \/ Contains(gpt, Lower(mid))
    /\ re # None

\* ('openai' in model_id.lower() or 'gpt' in model_id.lower())
\*     and reasoning_effort
ReasoningApplies(mid, re) ==
    /\ Contains(openai, Lower(mid)) \/ Contains(gpt, Lower(mid))
    /\ Truthy(re)

\* if ...: converse_params["additionalModelRequestFields"] = {...}
AddReasoningConfig ==
    /\ pc = "reasoning"
    /\ converse_params' =
           IF ReasoningApplies(model_id, reasoning_effort)
           THEN ("additionalModelRequestFields" :>
                     [reasoning_effort |-> reasoning_effort[1]])
                @@ converse_params
           ELSE converse_params
    /\ pc' = "thinking"
    /\ UNCHANGED <<model_id, prompt, system_prompt, temperature, max_tokens,
                   reasoning_effort, thinking_budget, inference_config, calls,
                   sent, response, content, outcome, result, error,
                   raised>>
    /\ UNCHANGED costVars

\* Variant: thinking_budget tested for truth, so a budget of 0 is dropped.
ThinkingAppliesTruthy(mid, tb) ==
    /\ Contains(claude, Lower(mid))
    /\ tb # None /\ tb[1] # 0

\* 'claude' in model_id.lower() and thinking_budget is not None
ThinkingApplies(mid, tb) ==
    /\ Contains(claude, Lower(mid))
    /\ tb # None

\* Variant: the second test written as elif of the first.
AddThinkingConfigElif ==
    /\ pc = "thinking"
    /\ inference_config' =
           IF /\ ~ReasoningApplies(model_id, reasoning_effort)
              /\ ThinkingApplies(model_id, thinking_budget)
           THEN ("thinking" :>
                     [type |-> "enabled", budget |-> thinking_budget[1]])
                @@ inference_config
           ELSE inference_config
    /\ pc' = "call"
    /\ UNCHANGED <<model_id, prompt, system_prompt, temperature, max_tokens,
                   reasoning_effort, thinking_budget, converse_params, calls,
                   sent, response, content, outcome, result, error, raised>>
    /\ UNCHANGED costVars

\* if ...: inference_config["thinking"] = {"type": "enabled", "budget": ...}
\* The dict object is changed in place; converse_params refers to it.
AddThinkingConfig ==
    /\ pc = "thinking"
    /\ inference_config' =
           IF ThinkingApplies(model_id, thinking_budget)
           THEN ("thinking" :>
                     [type |-> "enabled", budget |-> thinking_budget[1]])
                @@ inference_config
           ELSE inference_config
    /\ pc' = "call"
    /\ UNCHANGED <<model_id, prompt, system_prompt, temperature, max_tokens,
                   reasoning_effort, thinking_budget, converse_params, calls,
                   sent, response, content, outcome, result, error,
                   raised>>
    /\ UNCHANGED costVars

\* **converse_params: the keyword arguments the callee receives, with the
\* reference held under "inferenceConfig" followed to the object it names.
Kwargs(params, config) == [params EXCEPT !.inferenceConfig = config]

\* response = client.converse(**converse_params), the call returning.
ClientConverseReturns ==
    /\ pc = "call"
    /\ calls' = calls + 1
    /\ sent' = Some(Kwargs(converse_params, inference_config))
    /\ \E c \in Contents :
           response' = Some([output |-> [message |-> [content |-> c]]])
    /\ pc' = "content"
    /\ UNCHANGED <<model_id, prompt, system_prompt, temperature, max_tokens,
                   reasoning_effort, thinking_budget, inference_config,
                   converse_params, content, outcome, result, error,
                   raised>>
    /\ UNCHANGED costVars

\* Variant: a failed call is attempted again (up to MaxRetries times).
MaxRetries == 2
ClientConverseRaisesRetry ==
    /\ pc = "call"
    /\ calls <= MaxRetries
    /\ calls' = calls + 1
    /\ sent' = Some(Kwargs(converse_params, inference_config))
    /\ \E e \in ServiceErrors : raised' = Some(e)
    /\ error' = IF calls' > MaxRetries THEN raised' ELSE error
    /\ outcome' = IF calls' > MaxRetries THEN "raise" ELSE outcome
    /\ pc' = IF calls' > MaxRetries THEN "done" ELSE "call"
    /\ UNCHANGED <<model_id, prompt, system_prompt, temperature, max_tokens,
                   reasoning_effort, thinking_budget, inference_config,
                   converse_params, response, content, result>>
    /\ UNCHANGED costVars

\* response = client.converse(**converse_params), the call raising: there
\* is no try around it, so the exception leaves converse().
ClientConverseRaises ==
    /\ pc = "call"
    /\ calls' = calls + 1
    /\ sent' = Some(Kwargs(converse_params, inference_config))
    /\ \E e \in ServiceErrors : raised' = Some(e)
    /\ error' = raised'
    /\ outcome' = "raise"
    /\ pc' = "done"
    /\ UNCHANGED <<model_id, prompt, system_prompt, temperature, max_tokens,
                   reasoning_effort, thinking_budget, inference_config,
                   converse_params, response, content, result>>
    /\ UNCHANGED costVars

\* content = response['output']['message']['content']
ExtractContent ==
    /\ pc = "content"
    /\ content' = Some(response[1].output.message.content)
    /\ pc' = "extract"
    /\ UNCHANGED <<model_id, prompt, system_prompt, temperature, max_tokens,
                   reasoning_effort, thinking_budget, inference_config,
                   converse_params, calls, sent, response, outcome, result,
                   error,
                   raised>>
    /\ UNCHANGED costVars

Return(v) == [kind |-> "return", value |-> v]
Raise(e) == [kind |-> "raise", value |-> e]

RECURSIVE FirstTextFrom(_, _)
\* Index of the first block at or after index k that has a text key; 0 when
\* there is none.
FirstTextFrom(c, k) ==
    IF k > Len(c) THEN 0
    ELSE IF "text" \in DOMAIN c[k] THEN k
    ELSE FirstTextFrom(c, k + 1)

\* Variant: the scan leaves out the first block.
ScanTextSkipFirst(c) == FirstTextFrom(c, 2)

\* for item in content: if 'text' in item: ...
ScanText(c) == FirstTextFrom(c, 1)

\* Variant: the text field read with .get('text'), None when it is missing.
StandardResponseGet(c) ==
    IF Len(c) = 0 THEN Raise("IndexError")
    ELSE IF "text" \notin DOMAIN c[1] THEN Return(None)
    ELSE Return(c[1].text)

\* return content[0]['text']
StandardResponse(c) ==
    IF Len(c) = 0 THEN Raise("IndexError")
    ELSE IF "text" \notin DOMAIN c[1] THEN Raise("KeyError")
    ELSE Return(c[1].text)

\* Variant: the standard response is the else branch of len(content) > 1, so
\* a scan that finds nothing ends the function, which then returns None.
ExtractTextNoFallThrough(c) ==
    IF Len(c) > 1
    THEN IF ScanText(c) # 0 THEN Return(c[ScanText(c)].text) ELSE Return(None)
    ELSE StandardResponse(c)

\* Lines 80-88: the scan for a multi-block response, then the standard
\* response.
ExtractText(c) ==
    IF Len(c) > 1 /\ ScanText(c) # 0
    THEN Return(c[ScanText(c)].text)
    ELSE StandardResponse(c)

ReturnText ==
    /\ pc = "extract"
    /\ LET r == ExtractText(content[1])
       IN /\ outcome' = r.kind
          /\ result' = IF r.kind = "return" THEN Some(r.value) ELSE None
          /\ error' = IF r.kind = "raise" THEN Some(r.value) ELSE None
    /\ pc' = "done"
    /\ UNCHANGED <<model_id, prompt, system_prompt, temperature, max_tokens,
                   reasoning_effort, thinking_budget, inference_config,
                   converse_params, calls, sent, response, content,
                   raised>>
    /\ UNCHANGED costVars

Next ==
    \/ Invoke
    \/ BuildInferenceConfig
    \/ BuildConverseParams
    \/ AddReasoningConfig
    \/ AddThinkingConfig
    \/ ClientConverseReturns
    \/ ClientConverseRaises
    \/ ExtractContent
    \/ ReturnText

Spec == Init /\ [][Next]_vars

(***************************************************************************)
(* calculate_monthly_cost()                                                *)
(***************************************************************************)
Abs(n) == IF n < 0 THEN -n ELSE n

RECURSIVE GCD(_, _)
GCD(a, b) == IF b = 0 THEN a ELSE GCD(b, a % b)

\* The rational n/d (d # 0) in lowest terms with a positive denominator.
Rat(n, d) ==
    LET g == GCD(Abs(n), Abs(d))
        sgn == IF d < 0 THEN -1 ELSE 1
    IN <<sgn * (n \div g), sgn * (d \div g)>>

\* int * int
IntMul(a, b) == a * b

\* int / int: true division, ZeroDivisionError for a zero divisor.
TrueDiv(a, b) == IF b = 0 THEN Raise("ZeroDivisionError") ELSE Return(Rat(a, b))

\* float * float
RatMul(x, y) == Rat(x[1] * y[1], x[2] * y[2])

\* float + float
RatAdd(x, y) ==
    LET g == GCD(x[2], y[2])
    IN Rat(x[1] * (y[2] \div g) + y[1] * (x[2] \div g), x[2] * (y[2] \div g))

\* The arguments: counts are ints, prices are given in thousandths.
RequestCounts == (0..MaxRequests) \cup {100}
InputTokenCounts == (0..MaxTokens) \cup {500}
OutputTokenCounts == (0..MaxTokens) \cup {200}
Prices == {Rat(k, 1000) : k \in ((-MaxPrice)..MaxPrice) \cup {3, 15}}

InitCost ==
    /\ pc = "idle"
    /\ model_id = None /\ prompt = None /\ system_prompt = None
    /\ temperature = None /\ max_tokens = None
    /\ reasoning_effort = None /\ thinking_budget = None
    /\ inference_config = None /\ converse_params = None
    /\ calls = 0 /\ sent = None /\ response = None /\ content = None
    /\ outcome = "none" /\ result = None /\ error = None
    /\ raised = None
    /\ cpc = "monthly_requests"
    /\ requests_per_day \in RequestCounts
    /\ avg_input_tokens \in InputTokenCounts
    /\ avg_output_tokens \in OutputTokenCounts
    /\ input_price_per_1k \in Prices
    /\ output_price_per_1k \in Prices
    /\ monthly_requests = None /\ monthly_input_tokens = None
    /\ monthly_output_tokens = None /\ cost = None

DaysPerMonth == 30
TokensPerPriceUnit == 1000

\* monthly_requests = requests_per_day * 30
MonthlyRequests ==
    /\ cpc = "monthly_requests"
    /\ monthly_requests' = Some(IntMul(requests_per_day, DaysPerMonth))
    /\ cpc' = "monthly_input_tokens"
    /\ UNCHANGED <<requests_per_day, avg_input_tokens, avg_output_tokens,
                   input_price_per_1k, output_price_per_1k,
                   monthly_input_tokens, monthly_output_tokens, cost>>
    /\ UNCHANGED converseVars

\* Variant: floor division (//) in place of true division.
MonthlyTokensFloorDiv(requests, avg_tokens) ==
    Return(Rat(IntMul(requests, avg_tokens) \div TokensPerPriceUnit, 1))

\* monthly_requests * avg_tokens / 1000
MonthlyTokens(requests, avg_tokens) ==
    TrueDiv(IntMul(requests, avg_tokens), TokensPerPriceUnit)

\* monthly_input_tokens = monthly_requests * avg_input_tokens / 1000
MonthlyInputTokens ==
    /\ cpc = "monthly_input_tokens"
    /\ LET r == MonthlyTokens(monthly_requests[1], avg_input_tokens)
       IN /\ monthly_input_tokens' =
                 IF r.kind = "return" THEN Some(r.value) ELSE None
          /\ cost' = IF r.kind = "raise" THEN r ELSE cost
          /\ cpc' = IF r.kind = "return" THEN "monthly_output_tokens" ELSE "done"
    /\ UNCHANGED <<requests_per_day, avg_input_tokens, avg_output_tokens,
                   input_price_per_1k, output_price_per_1k, monthly_requests,
                   monthly_output_tokens>>
    /\ UNCHANGED converseVars

\* monthly_output_tokens = monthly_requests * avg_output_tokens / 1000
MonthlyOutputTokens ==
    /\ cpc = "monthly_output_tokens"
    /\ LET r == MonthlyTokens(monthly_requests[1], avg_output_tokens)
       IN /\ monthly_output_tokens' =
                 IF r.kind = "return" THEN Some(r.value) ELSE None
          /\ cost' = IF r.kind = "raise" THEN r ELSE cost
          /\ cpc' = IF r.kind = "return" THEN "return" ELSE "done"
    /\ UNCHANGED <<requests_per_day, avg_input_tokens, avg_output_tokens,
                   input_price_per_1k, output_price_per_1k, monthly_requests,
                   monthly_input_tokens>>
    /\ UNCHANGED converseVars

\* monthly_input_tokens * input_price_per_1k
\*     + monthly_output_tokens * output_price_per_1k
TotalCost(input_tokens, output_tokens, input_price, output_price) ==
    RatAdd(RatMul(input_tokens, input_price),
           RatMul(output_tokens, output_price))

\* return (...)
ReturnCost ==
    /\ cpc = "return"
    /\ cost' = Return(TotalCost(monthly_input_tokens[1],
                                monthly_output_tokens[1],
                                input_price_per_1k, output_price_per_1k))
    /\ cpc' = "done"
    /\ UNCHANGED <<requests_per_day, avg_input_tokens, avg_output_tokens,
                   input_price_per_1k, output_price_per_1k, monthly_requests,
                   monthly_input_tokens, monthly_output_tokens>>
    /\ UNCHANGED converseVars

NextCost ==
    \/ MonthlyRequests
    \/ MonthlyInputTokens
    \/ MonthlyOutputTokens
    \/ ReturnCost

SpecCost == InitCost /\ [][NextCost]_vars

(***************************************************************************)
(* Properties of the request converse() sends.                             *)
(***************************************************************************)
Called == sent # None
Request == sent[1]
MatchesOpenAIOrGpt ==
    Contains(openai, Lower(model_id)) \/ Contains(gpt, Lower(model_id))
MatchesClaude == Contains(claude, Lower(model_id))
NonEmptyEffort == reasoning_effort # None /\ reasoning_effort[1] # ""
HasReasoningField == "additionalModelRequestFields" \in DOMAIN Request
ReasoningFieldIs(v) ==
    /\ HasReasoningField
    /\ Request.additionalModelRequestFields = [reasoning_effort |-> v]
HasThinking == "thinking" \in DOMAIN Request.inferenceConfig
ThinkingIs(b) ==
    /\ HasThinking
    /\ Request.inferenceConfig.thinking = [type |-> "enabled", budget |-> b]

C2_ThinkingAttached ==
    Called =>
        /\ Request.inferenceConfig.temperature = temperature
        /\ Request.inferenceConfig.maxTokens = max_tokens
        /\ IF MatchesClaude /\ thinking_budget # None
           THEN /\ ThinkingIs(thinking_budget[1])
                /\ DOMAIN Request.inferenceConfig =
                       {"temperature", "maxTokens", "thinking"}
           ELSE DOMAIN Request.inferenceConfig = {"temperature", "maxTokens"}

\* C2 witness: a mixed-case "claude" id with a budget of 0 was sent with
\* thinking attached.
C2_Witness ==
    /\ Called
    /\ model_id = <<"C", "L", "A", "U", "D", "E">>
    /\ thinking_budget = Some(0)
    /\ ThinkingIs(0)

BaseFieldsSent ==
    /\ Request.modelId = model_id
    /\ Request.messages =
           <<[role |-> "user", content |-> <<[text |-> prompt]>>]>>
    /\ Request.system = <<[text |-> system_prompt]>>
    /\ Request.inferenceConfig.temperature = temperature
    /\ Request.inferenceConfig.maxTokens = max_tokens
    /\ {"modelId", "messages", "system", "inferenceConfig"}
           \subseteq DOMAIN Request
    /\ DOMAIN Request \subseteq
           {"modelId", "messages", "system", "inferenceConfig",
            "additionalModelRequestFields"}

C7_ExactlyOneCall ==
    /\ calls <= 1
    /\ (calls = 0) <=>
           pc \in {"idle", "inference_config", "converse_params",
                   "reasoning", "thinking", "call"}
    /\ (calls = 1) <=> pc \in {"content", "extract", "done"}
    /\ Called <=> calls = 1
    /\ Called =>
           Request = [converse_params EXCEPT !.inferenceConfig = inference_config]
    /\ raised # None =>
           /\ pc = "done"
           /\ outcome = "raise"
           /\ error = raised
           /\ result = None
           /\ response = None

\* C7 witness: the call raised ThrottlingException and converse() ended
\* with it after one call.
C7_Witness ==
    /\ pc = "done"
    /\ raised = Some("ThrottlingException")
    /\ error = Some("ThrottlingException")
    /\ calls = 1

(***************************************************************************)
(* Properties of the text converse() returns.                              *)
(***************************************************************************)
Finished == pc = "done" /\ content # None
Received == content[1]
HasText(k) == "text" \in DOMAIN Received[k]
TextIndices == {k \in 1..Len(Received) : HasText(k)}
\* k is the lowest index, at or after index from, of a block with a text
\* field.
LowestTextFrom(k, from) ==
    /\ k \in TextIndices
    /\ k >= from
    /\ \A j \in TextIndices : j >= from => k <= j

C5_AsStated ==
    (Finished /\ Len(Received) > 1 /\ outcome = "return") =>
        \E k \in TextIndices :
            LowestTextFrom(k, 2) /\ result = Some(Received[k].text)

\* C6, as stated: for a response of at most one block, converse() returns
\* the text of element 0 when it has one, and fails with IndexError both for
\* an empty sequence and for a single element without a text field.
C6_AsStated ==
    (Finished /\ Len(Received) <= 1) =>
        IF Len(Received) = 1 /\ HasText(1)
        THEN outcome = "return" /\ result = Some(Received[1].text)
        ELSE outcome = "raise" /\ error = Some("IndexError") /\ result = None

\* C6, amended: for a response of at most one block, converse() returns the
\* text of element 0 when it has one; it returns no value and fails with an
\* out-of-bounds error (IndexError) when the sequence is empty, and with a
\* missing-key error (KeyError) when the single element has no text field.
C6_SingleBlockResponse ==
    (Finished /\ Len(Received) <= 1) =>
        IF Len(Received) = 0
        THEN outcome = "raise" /\ error = Some("IndexError") /\ result = None
        ELSE IF HasText(1)
        THEN outcome = "return" /\ result = Some(Received[1].text)
             /\ error = None
        ELSE outcome = "raise" /\ error = Some("KeyError") /\ result = None

\* C6 witness: [{reasoningText: "trace"}] ended in KeyError.
C6_Witness ==
    /\ Finished
    /\ Received = <<[reasoningText |-> "trace"]>>
    /\ outcome = "raise"
    /\ error = Some("KeyError")

\* C10: for a response of more than one block, none with a text field, the
\* scan finds nothing and the read of element 0's text field fails with a
\* missing-key error; converse() returns no value.
C10_NoTextBlockFails ==
    (Finished /\ Len(Received) > 1 /\ TextIndices = {}) =>
        /\ outcome = "raise"
        /\ error = Some("KeyError")
        /\ result = None

\* C10 witness: two blocks without text ended in KeyError.
C10_Witness ==
    /\ Finished
    /\ Received = <<[reasoningText |-> "trace"], [reasoningText |-> "trace"]>>
    /\ outcome = "raise"
    /\ error = Some("KeyError")
    /\ result = None

(***************************************************************************)
(* Properties of calculate_monthly_cost().                                 *)
(***************************************************************************)
\* A price <<n, d>> (d divides 1000) in thousandths.
Thousandths(price) == price[1] * (1000 \div price[2])

\* (r*30*i/1000)*pi + (r*30*o/1000)*po as one fraction over 1000 * 1000.
ClosedFormCost ==
    Rat(requests_per_day * 30 * avg_input_tokens
            * Thousandths(input_price_per_1k)
        + requests_per_day * 30 * avg_output_tokens
            * Thousandths(output_price_per_1k),
        1000 * 1000)

\* C8: calculate_monthly_cost(r, i, o, pi, po) returns exactly
\* (r*30*i/1000)*pi + (r*30*o/1000)*po and never raises: r = 0 gives 0,
\* negative prices (with positive counts) give a negative result, and
\* r=100, i=500, o=200, pi=0.003, po=0.015 gives 13.5.
C8_MonthlyCostFormula ==
    /\ cost # None => cpc = "done" /\ cost.kind = "return"
    /\ cpc = "done" =>
           /\ cost # None
           /\ cost.value = ClosedFormCost
           /\ requests_per_day = 0 => cost.value = <<0, 1>>
           /\ (/\ requests_per_day > 0
               /\ avg_input_tokens > 0 /\ avg_output_tokens > 0
               /\ input_price_per_1k[1] < 0 /\ output_price_per_1k[1] < 0)
                  => cost.value[1] < 0
           /\ (/\ requests_per_day = 100
               /\ avg_input_tokens = 500 /\ avg_output_tokens = 200
               /\ input_price_per_1k = Rat(3, 1000)
               /\ output_price_per_1k = Rat(15, 1000))
                  => cost.value = <<27, 2>>

\* C8 witness: the example of 13.5 = 27/2 was computed.
C8_Witness ==
    /\ cpc = "done"
    /\ requests_per_day = 100
    /\ avg_input_tokens = 500 /\ avg_output_tokens = 200
    /\ input_price_per_1k = Rat(3, 1000)
    /\ output_price_per_1k = Rat(15, 1000)
    /\ cost = Return(<<27, 2>>)

====
